---- MODULE Spec2Model ----
(***************************************************************************)
(* Model of the request throttle (ai_scientist/utils/rate_limiter.py,      *)
(* APIRateLimiter) and of the retry decorator (ai_scientist/rate_limit.py, *)
(* RateLimitHandler).                                                      *)
(*                                                                         *)
(* Time is counted in ticks of 1/30 s, the coarsest unit in which every    *)
(* duration of the program is a whole number: 0.1 s = 3, 1.0 s = 30,       *)
(* 60/45 s = 40, 60 s = 1800.                                              *)
(*                                                                         *)
(* A caller of the limiter is a thread.  One action is one step of the     *)
(* CPython interpreter that touches shared state at most once (a dict      *)
(* lookup, a dict store, a clock read), so that every interleaving the     *)
(* interpreter allows between two such steps is a behaviour of the model.  *)
(***************************************************************************)
EXTENDS Integers, Sequences, FiniteSets, TLC

\* ------------------------------------------------------------------ bounds
NThreads == 2
MaxCalls == 1
MaxBeyondBurst == 1
MaxSeqBackoffs == 1
MaxIdles == 1
MaxInvokes == 2
MaxInterruptible == 3
MaxLoopCalls == 2
MaxClientCalls == 2
MaxTokens == 3
MaxCitations == 2
MaxSearches == 1
MaxThreadCalls == 1
MaxOpFailures == 1

\* ------------------------------------------------------------------- units
Seconds(n) == n * 30
Tenths(n) == n * 3

Max(a, b) == IF a >= b THEN a ELSE b
Min(a, b) == IF a <= b THEN a ELSE b

Threads == 1..NThreads

\* --------------------------------------------------------- policy registry
RateLimitConfig(rpm, burst) ==
    [requests_per_minute |-> rpm, burst_limit |-> burst,
     min_delay |-> Tenths(1), max_delay |-> Seconds(1)]

NoConfig == [requests_per_minute |-> 0, burst_limit |-> 0,
             min_delay |-> 0, max_delay |-> 0]

Configured == {"anthropic", "openai", "semantic_scholar", "scopus", "taylor_francis"}

\* Every key a call of the model can name: the configured providers, the key
\* handle_backoff falls back to and the other keys of the retry decorator, which
\* have no policy.
Providers == Configured \cup {"unknown", "google", "xai", "default"}

InitialRateLimits ==
    [p \in Providers |->
        CASE p = "anthropic" -> RateLimitConfig(45, 3)
          [] p = "openai" -> RateLimitConfig(60, 5)
          [] p = "semantic_scholar" -> RateLimitConfig(30, 2)
          [] p = "scopus" -> RateLimitConfig(20, 2)
          [] p = "taylor_francis" -> RateLimitConfig(15, 1)
          [] OTHER -> NoConfig]

\* The keys the threads of the concurrent specification draw from.
ConcurrentKeys == {"semantic_scholar", "taylor_francis", "unknown"}

\* random.lognormvariate returns any positive real: one draw below min_delay,
\* one between the bounds, one above max_delay.
RawDraws == {1, 15, 45}

Window == Seconds(60)

\* time.time() when the limiter is built: seconds since the epoch, far more than
\* any duration of the program.
StartTime == 2 * Window

\* A key absent from a dict.
Absent == -1
NoLock == 0
Free == 0

\* What an observer of the calls records, per key: returned, the handle_request
\* calls that returned; resets, the handle_backoff calls that returned; lastOp, the
\* call that returned last; lastReturn, when a handle_request last returned;
\* inFirstMinute, the handle_request calls that returned in the first 60 s of the
\* limiter; sinceReset, the handle_request calls entered since the key was fresh
\* or last reset.
Never == Absent
NoHistory == [returned |-> 0, resets |-> 0, lastOp |-> "none", lastReturn |-> Never,
              inFirstMinute |-> 0, sinceReset |-> 0]

\* What a call found on entry: start, the time; ordinal, its rank among the
\* handle_request calls since the key was fresh or reset; saturated, whether the
\* count had reached burst_limit in the current window; prevReturn, when the
\* previous handle_request on the key returned; afterReset, whether the last call
\* returned on the key was a handle_backoff; countWas and timeWas, the count and
\* the timestamp of the key; client and method, the citation client method that
\* made the call; gated, the key of the handle_request that has returned to it.
NoEntry == [start |-> 0, ordinal |-> 0, saturated |-> FALSE, prevReturn |-> Never,
            afterReset |-> FALSE, countWas |-> Absent, timeWas |-> Absent,
            client |-> "none", method |-> "none", gated |-> "none", details |-> "none"]

VARIABLES
    now,                \* time.time()
    idles,              \* pauses of a whole window taken so far
    rate_limits,        \* APIRateLimiter.rate_limits
    last_request_time,  \* APIRateLimiter.last_request_time (Absent: no key)
    request_counts,     \* APIRateLimiter.request_counts (Absent: no key)
    locks,              \* APIRateLimiter._locks: key -> the Lock stored (its creator)
    lockHolder,         \* per Lock object (key, creator): the thread holding it
    keys,               \* the keys the callers may name
    reqLeft,            \* handle_request calls a thread may still start
    backLeft,           \* handle_backoff calls a thread may still start
    pc,                 \* position of each thread
    op,                 \* "request" | "backoff": the call a thread is in
    provider,           \* its provider argument
    myLock,             \* the Lock _get_lock returned to it
    current_time,       \* local current_time
    last_time,          \* local last_time
    count,              \* local count
    is_limited,         \* local is_limited
    delay,              \* local delay
    wake,               \* end of its time.sleep
    tmp,                \* request_counts[provider] as read by +=
    raised,             \* whether its last call raised
    hist,               \* per key: what the calls on it have done so far
    entry,              \* per thread: what its current call found on entry
    handler_queues,     \* RateLimitHandler._request_queues: the keys that have one
    handler_locks,      \* RateLimitHandler._locks: key -> holder, Free, or Absent
    handler_last,       \* RateLimitHandler._last_request_time (Absent: no key)
    decorated,          \* per caller: the key of its decorated function, or "none"
    modelOf,           \* per caller: the name its function was decorated with
    invLeft,            \* calls of the decorated function a caller may still make
    call,               \* per caller: the retry loop of its current call
    citations,          \* the rows of the table citations, by id
    db_last,            \* the last call of a CitationDB method and what it returned
    search,             \* per thread: its call of CitationAPIManager.search_all_by_doi
    ensure,             \* per caller: where it is in _ensure_provider_initialized
    orphans,            \* callers holding a Lock that _locks no longer holds
    succeeded           \* per key: when its last wrapped operation returned

limiterVars == <<rate_limits, last_request_time, request_counts, locks, lockHolder>>
threadVars == <<pc, op, provider, myLock, current_time, last_time, count,
                is_limited, delay, wake, tmp, raised>>
budgetVars == <<keys, reqLeft, backLeft>>
obsVars == <<hist, entry>>
handlerVars == <<handler_queues, handler_locks, handler_last>>
callerVars == <<decorated, modelOf, invLeft, call>>
retryVars == <<handlerVars, callerVars>>
apiVars == <<idles, limiterVars, budgetVars, threadVars, obsVars>>
dbVars == <<citations, db_last>>
citationVars == <<dbVars, search>>
ensureVars == <<ensure, orphans, succeeded>>
vars == <<now, idles, limiterVars, budgetVars, threadVars, obsVars, retryVars, citationVars,
          ensureVars>>

\* ---------------------------------------------------- RateLimitHandler()
HandlerKeys == {"openai", "anthropic", "google", "xai", "default"}

\* The retry loop of one call of a decorated function: pc, its position; tries,
\* the attempts begun; waits, the values taken from the wait generator; wake,
\* the end of its sleep; and what an observer records: execs, the executions of
\* the operation; backoffs, the backoff sleeps; rateLimited, the failures that
\* were rate-limit failures; others, the other failures; slept, the last backoff
\* sleep; result and error, how the call ended and the error of which attempt;
\* lastWas, the timestamp of the key when the attempt took the lock.
NoCall == [pc |-> "r_idle", tries |-> 0, waits |-> 0, wake |-> 0, execs |-> 0,
           backoffs |-> 0, rateLimited |-> 0, others |-> 0, slept |-> 0,
           result |-> "none", error |-> "none", errorOf |-> 0, lastWas |-> 0]

\* Not inside handle_rate_limit.
NoEnsure == [pc |-> "none", key |-> "none", replaced |-> FALSE]

InitHandler ==
    /\ ensure = [c \in Threads |-> NoEnsure]
    /\ orphans = {}
    /\ succeeded = [k \in HandlerKeys |-> Never]
    /\ handler_queues = {}
    /\ handler_locks = [k \in HandlerKeys |-> Absent]
    /\ handler_last = [k \in HandlerKeys |-> Absent]
    /\ decorated = [c \in Threads |-> "none"]
    /\ modelOf = [c \in Threads |-> <<>>]
    /\ call = [c \in Threads |-> NoCall]

\* ------------------------------------------------------ APIRateLimiter()
\* No call of a CitationDB method yet.
NoDbCall == [method |-> "none", identifier |-> "", result |-> "none", before |-> <<>>]

\* CitationAPIManager.apis, lines 141-145: the clients by the names it gives
\* them, in the order of the dict.
ApiOrder == <<"semantic_scholar", "scopus", "taylor_francis">>

\* No method of a client has returned.
NoReturn == [client |-> "none", method |-> "none", outcome |-> "none",
             returned |-> "none"]

\* No call of search_all_by_doi: results = {} is still to come.
NoSearch == [state |-> "none", left |-> 0, results |-> <<>>, failed |-> {},
             got |-> NoReturn]

InitAPI ==
    /\ now = StartTime
    /\ citations = <<>>
    /\ db_last = NoDbCall
    /\ idles = 0
    /\ rate_limits = InitialRateLimits
    /\ last_request_time = [p \in Providers |-> Absent]
    /\ request_counts = [p \in Providers |-> Absent]
    /\ locks = [p \in Providers |-> NoLock]
    /\ lockHolder = [p \in Providers |-> [c \in Threads |-> Free]]
    /\ pc = [t \in Threads |-> "idle"]
    /\ op = [t \in Threads |-> "none"]
    /\ provider = [t \in Threads |-> "unknown"]
    /\ myLock = [t \in Threads |-> NoLock]
    /\ current_time = [t \in Threads |-> 0]
    /\ last_time = [t \in Threads |-> 0]
    /\ count = [t \in Threads |-> 0]
    /\ is_limited = [t \in Threads |-> FALSE]
    /\ delay = [t \in Threads |-> 0]
    /\ wake = [t \in Threads |-> 0]
    /\ tmp = [t \in Threads |-> 0]
    /\ raised = [t \in Threads |-> FALSE]
    /\ hist = [p \in Providers |-> NoHistory]
    /\ entry = [t \in Threads |-> NoEntry]

\* The limiter and the handler, both just built.
InitLimiter ==
    /\ InitAPI
    /\ InitHandler
    /\ search = [t \in Threads |-> NoSearch]

\* Concurrent callers: every thread makes MaxCalls calls, handle_request or
\* handle_backoff, on any of ConcurrentKeys.
Init ==
    /\ InitLimiter
    /\ keys = ConcurrentKeys
    /\ reqLeft \in [Threads -> 0..MaxCalls]
    /\ backLeft = [t \in Threads |-> MaxCalls - reqLeft[t]]
    /\ invLeft = [c \in Threads |-> 0]

\* One caller issuing its calls one after the other on one provider: as many
\* handle_request calls as its burst_limit and MaxBeyondBurst more.
InitSeq ==
    /\ InitLimiter
    /\ \E p \in Providers :
          /\ keys = {p}
          /\ reqLeft = [t \in Threads |->
                IF t = 1 THEN InitialRateLimits[p].burst_limit + MaxBeyondBurst ELSE 0]
    /\ backLeft = [t \in Threads |-> IF t = 1 THEN MaxSeqBackoffs ELSE 0]
    /\ invLeft = [c \in Threads |-> 0]

\* One caller issuing one handle_request more than requests_per_minute on the
\* provider with the lowest ceiling.
InitSteady ==
    /\ InitLimiter
    /\ keys = {"taylor_francis"}
    /\ reqLeft = [t \in Threads |->
          IF t = 1 THEN InitialRateLimits["taylor_francis"].requests_per_minute + 1
          ELSE 0]
    /\ backLeft = [t \in Threads |-> 0]
    /\ invLeft = [c \in Threads |-> 0]

\* One caller of a function decorated with handle_rate_limit makes its calls
\* one after the other; nobody calls the limiter directly.
InitRetry ==
    /\ InitLimiter
    /\ keys = {}
    /\ reqLeft = [t \in Threads |-> 0]
    /\ backLeft = [t \in Threads |-> 0]
    /\ invLeft = [c \in Threads |-> IF c = 1 THEN MaxInvokes ELSE 0]

\* ------------------------------------------------------------ the callers
Goto(t, l) == pc' = [pc EXCEPT ![t] = l]

\* handle_request or handle_backoff ends: its locals are gone.
DropFrame(t) ==
    /\ op' = [op EXCEPT ![t] = "none"]
    /\ provider' = [provider EXCEPT ![t] = "unknown"]
    /\ myLock' = [myLock EXCEPT ![t] = NoLock]
    /\ current_time' = [current_time EXCEPT ![t] = 0]
    /\ last_time' = [last_time EXCEPT ![t] = 0]
    /\ count' = [count EXCEPT ![t] = 0]
    /\ is_limited' = [is_limited EXCEPT ![t] = FALSE]
    /\ delay' = [delay EXCEPT ![t] = 0]
    /\ wake' = [wake EXCEPT ![t] = 0]
    /\ tmp' = [tmp EXCEPT ![t] = 0]

\* A call ends: its locals are gone.
DropLocals(t) ==
    /\ DropFrame(t)
    /\ entry' = [entry EXCEPT ![t] = NoEntry]

Saturated(p) ==
    /\ rate_limits[p] # NoConfig
    /\ request_counts[p] # Absent
    /\ request_counts[p] >= rate_limits[p].burst_limit
    /\ now - last_request_time[p] < Window

CallHandleRequest(t) ==
    /\ pc[t] = "idle"
    /\ reqLeft[t] > 0
    /\ \E p \in keys :
          /\ provider' = [provider EXCEPT ![t] = p]
          /\ entry' = [entry EXCEPT ![t] =
                [start |-> now, ordinal |-> hist[p].sinceReset + 1,
                 saturated |-> Saturated(p), prevReturn |-> hist[p].lastReturn,
                 afterReset |-> hist[p].lastOp = "backoff",
                 countWas |-> request_counts[p], timeWas |-> last_request_time[p],
                 client |-> "none", method |-> "none", gated |-> "none", details |-> "none"]]
          /\ hist' = [hist EXCEPT ![p].sinceReset = @ + 1]
    /\ reqLeft' = [reqLeft EXCEPT ![t] = @ - 1]
    /\ op' = [op EXCEPT ![t] = "request"]
    /\ raised' = [raised EXCEPT ![t] = FALSE]
    /\ Goto(t, "gl_check")
    /\ UNCHANGED <<now, citationVars, ensureVars, idles, retryVars, limiterVars, keys, backLeft, myLock,
                   current_time, last_time, count, is_limited, delay, wake, tmp>>

\* handle_backoff, line 103: details.get('provider', 'unknown'); "none" stands
\* for details without a 'provider' entry.
DefaultsToConfigured(d) == IF d = "none" THEN "taylor_francis" ELSE d

DetailsProvider(d) == IF d = "none" THEN "unknown" ELSE d

CallHandleBackoff(t) ==
    /\ pc[t] = "idle"
    /\ backLeft[t] > 0
    /\ \E d \in keys \cup {"none"} :
          /\ provider' = [provider EXCEPT ![t] = DetailsProvider(d)]
          /\ entry' = [entry EXCEPT ![t] = [NoEntry EXCEPT !.start = now, !.details = d]]
    /\ UNCHANGED hist
    /\ backLeft' = [backLeft EXCEPT ![t] = @ - 1]
    /\ op' = [op EXCEPT ![t] = "backoff"]
    /\ raised' = [raised EXCEPT ![t] = FALSE]
    /\ Goto(t, "gl_check")
    /\ UNCHANGED <<now, citationVars, ensureVars, idles, retryVars, limiterVars, keys, reqLeft, myLock,
                   current_time, last_time, count, is_limited, delay, wake, tmp>>

\* --------------------------------------------------------- `with lock:`
HeldAfterException(holder, byException) == IF byException THEN holder ELSE Free

\* The exit of a `with lock:` block releases the Lock, whether the block
\* returned or raised.
LockAfterExit(holder, byException) == Free

\* ------------------------------------------------------------- _get_lock
OneLockKey(p) == "unknown"

\* self._locks[provider]: the locks are kept under the key of the provider.
LockKey(p) == p

\* line 32: if provider not in self._locks
GetLockCheck(t) ==
    /\ pc[t] = "gl_check"
    /\ Goto(t, IF locks[LockKey(provider[t])] = NoLock THEN "gl_store" ELSE "gl_return")
    /\ UNCHANGED <<now, citationVars, ensureVars, idles, retryVars, obsVars, limiterVars, budgetVars, op, provider, myLock,
                   current_time, last_time, count, is_limited, delay, wake, tmp, raised>>

\* line 33: self._locks[provider] = Lock(); the new Lock is named by its creator.
GetLockStore(t) ==
    /\ pc[t] = "gl_store"
    /\ locks' = [locks EXCEPT ![LockKey(provider[t])] = t]
    /\ Goto(t, "gl_return")
    /\ UNCHANGED <<now, citationVars, ensureVars, idles, retryVars, obsVars, rate_limits, last_request_time, request_counts,
                   lockHolder, budgetVars, op, provider, myLock, current_time,
                   last_time, count, is_limited, delay, wake, tmp, raised>>

\* line 34: return self._locks[provider]
GetLockReturn(t) ==
    /\ pc[t] = "gl_return"
    /\ myLock' = [myLock EXCEPT ![t] = locks[LockKey(provider[t])]]
    /\ Goto(t, "acquire")
    /\ UNCHANGED <<now, citationVars, ensureVars, idles, retryVars, obsVars, limiterVars, budgetVars, op, provider, current_time,
                   last_time, count, is_limited, delay, wake, tmp, raised>>

\* `with lock:` blocks until the Lock object is free.
Acquire(t) ==
    /\ pc[t] = "acquire"
    /\ lockHolder[LockKey(provider[t])][myLock[t]] = Free
    /\ lockHolder' = [lockHolder EXCEPT ![LockKey(provider[t])][myLock[t]] = t]
    /\ Goto(t, IF op[t] = "request" THEN "chk_config" ELSE "bo_count")
    /\ UNCHANGED <<now, citationVars, ensureVars, idles, retryVars, obsVars, rate_limits, last_request_time, request_counts, locks,
                   budgetVars, op, provider, myLock, current_time, last_time, count,
                   is_limited, delay, wake, tmp, raised>>

\* ------------------------------------------------------ _check_rate_limit
\* line 81: delay_needed = 60.0 / config.requests_per_minute
DelayNeeded(config) == Window \div config.requests_per_minute

\* lines 49-52: clip the raw draw to [min_delay, max_delay] and flip it.
GenerateDelay(config, raw) ==
    LET clipped == Max(config.min_delay, Min(config.max_delay, raw))
    IN  config.max_delay - clipped + config.min_delay

\* line 80: if count >= config.burst_limit
BurstReachedOneEarly(config, cnt) == cnt + 1 >= config.burst_limit

BurstReached(config, cnt) == cnt >= config.burst_limit

\* lines 82-83: time_passed = current_time - last_time; time_passed < delay_needed
TooSoon(config, cur, last) == cur - last < DelayNeeded(config)

\* lines 70-73: config = self.rate_limits.get(provider); no config: (False, 0.0)
CheckConfig(t) ==
    /\ pc[t] = "chk_config"
    /\ IF rate_limits[provider[t]] = NoConfig
       THEN /\ is_limited' = [is_limited EXCEPT ![t] = FALSE]
            /\ delay' = [delay EXCEPT ![t] = 0]
            /\ Goto(t, "dispatch")
       ELSE /\ UNCHANGED <<is_limited, delay>>
            /\ Goto(t, "chk_time")
    /\ UNCHANGED <<now, citationVars, ensureVars, idles, retryVars, obsVars, limiterVars, budgetVars, op, provider, myLock,
                   current_time, last_time, count, wake, tmp, raised>>

\* line 75: current_time = time.time()
CheckTime(t) ==
    /\ pc[t] = "chk_time"
    /\ current_time' = [current_time EXCEPT ![t] = now]
    /\ Goto(t, "chk_last")
    /\ UNCHANGED <<now, citationVars, ensureVars, idles, retryVars, obsVars, limiterVars, budgetVars, op, provider, myLock,
                   last_time, count, is_limited, delay, wake, tmp, raised>>

\* line 76: last_time = self.last_request_time.get(provider, 0)
CheckLast(t) ==
    /\ pc[t] = "chk_last"
    /\ last_time' = [last_time EXCEPT ![t] =
          IF last_request_time[provider[t]] = Absent THEN 0
          ELSE last_request_time[provider[t]]]
    /\ Goto(t, "chk_count")
    /\ UNCHANGED <<now, citationVars, ensureVars, idles, retryVars, obsVars, limiterVars, budgetVars, op, provider, myLock,
                   current_time, count, is_limited, delay, wake, tmp, raised>>

\* lines 77-87: count = self.request_counts.get(provider, 0), then the burst
\* branch or the jitter branch.
CheckCount(t) ==
    /\ pc[t] = "chk_count"
    /\ LET config == rate_limits[provider[t]]
           cnt == IF request_counts[provider[t]] = Absent THEN 0
                  ELSE request_counts[provider[t]]
       IN  /\ count' = [count EXCEPT ![t] = cnt]
           /\ IF BurstReached(config, cnt) /\ TooSoon(config, current_time[t], last_time[t])
              THEN /\ is_limited' = [is_limited EXCEPT ![t] = TRUE]
                   /\ delay' = [delay EXCEPT ![t] =
                         DelayNeeded(config) - (current_time[t] - last_time[t])]
              ELSE /\ is_limited' = [is_limited EXCEPT ![t] = FALSE]
                   /\ \E raw \in RawDraws :
                         delay' = [delay EXCEPT ![t] = GenerateDelay(config, raw)]
    /\ Goto(t, "dispatch")
    /\ UNCHANGED <<now, citationVars, ensureVars, idles, retryVars, obsVars, limiterVars, budgetVars, op, provider, myLock,
                   current_time, last_time, wake, tmp, raised>>

\* --------------------------------------------------------- handle_request
\* lines 93-98: time.sleep(delay) when limited or when delay > 0.
ShouldSleep(limited, d) == limited \/ d > 0

Dispatch(t) ==
    /\ pc[t] = "dispatch"
    /\ IF ShouldSleep(is_limited[t], delay[t])
       THEN /\ wake' = [wake EXCEPT ![t] = now + delay[t]]
            /\ Goto(t, "sleeping")
       ELSE /\ UNCHANGED wake
            /\ Goto(t, "upd_time")
    /\ UNCHANGED <<now, citationVars, ensureVars, idles, retryVars, obsVars, limiterVars, budgetVars, op, provider, myLock,
                   current_time, last_time, count, is_limited, delay, tmp, raised>>

\* time.sleep returns once the delay has passed.
WakeUp(t) ==
    /\ pc[t] = "sleeping"
    /\ now >= wake[t]
    /\ Goto(t, "upd_time")
    /\ UNCHANGED <<now, citationVars, ensureVars, idles, retryVars, obsVars, limiterVars, budgetVars, op, provider, myLock,
                   current_time, last_time, count, is_limited, delay, wake, tmp, raised>>

\* -------------------------------------------------- _update_request_count
\* line 56: current_time = time.time()
UpdateTime(t) ==
    /\ pc[t] = "upd_time"
    /\ current_time' = [current_time EXCEPT ![t] = now]
    /\ Goto(t, "upd_absent")
    /\ UNCHANGED <<now, citationVars, ensureVars, idles, retryVars, obsVars, limiterVars, budgetVars, op, provider, myLock,
                   last_time, count, is_limited, delay, wake, tmp, raised>>

\* line 57: if provider not in self.request_counts
UpdateAbsent(t) ==
    /\ pc[t] = "upd_absent"
    /\ Goto(t, IF request_counts[provider[t]] = Absent THEN "upd_init_count"
               ELSE "upd_window")
    /\ UNCHANGED <<now, citationVars, ensureVars, idles, retryVars, obsVars, limiterVars, budgetVars, op, provider, myLock,
                   current_time, last_time, count, is_limited, delay, wake, tmp, raised>>

\* line 58: self.request_counts[provider] = 0
UpdateInitCount(t) ==
    /\ pc[t] = "upd_init_count"
    /\ request_counts' = [request_counts EXCEPT ![provider[t]] = 0]
    /\ Goto(t, "upd_init_time")
    /\ UNCHANGED <<now, citationVars, ensureVars, idles, retryVars, obsVars, rate_limits, last_request_time, locks, lockHolder,
                   budgetVars, op, provider, myLock, current_time, last_time, count,
                   is_limited, delay, wake, tmp, raised>>

\* line 59: self.last_request_time[provider] = current_time
UpdateInitTime(t) ==
    /\ pc[t] = "upd_init_time"
    /\ last_request_time' = [last_request_time EXCEPT ![provider[t]] = current_time[t]]
    /\ Goto(t, "upd_window")
    /\ UNCHANGED <<now, citationVars, ensureVars, idles, retryVars, obsVars, rate_limits, request_counts, locks, lockHolder,
                   budgetVars, op, provider, myLock, current_time, last_time, count,
                   is_limited, delay, wake, tmp, raised>>

WindowExpiredLater(cur, last) == cur - last > Window

\* line 62: current_time - self.last_request_time[provider] >= 60
WindowExpired(cur, last) == cur - last >= Window

\* line 62.  self.last_request_time[provider] raises KeyError when the key is
\* absent; the exception leaves the with block, which releases the lock.
UpdateWindow(t) ==
    /\ pc[t] = "upd_window"
    /\ IF last_request_time[provider[t]] = Absent
       THEN /\ raised' = [raised EXCEPT ![t] = TRUE]
            /\ lockHolder' = [lockHolder EXCEPT ![LockKey(provider[t])][myLock[t]] = LockAfterExit(t, TRUE)]
            /\ DropLocals(t)
            /\ Goto(t, "idle")
       ELSE /\ UNCHANGED <<raised, lockHolder, entry, op, provider, myLock,
                           current_time, last_time, count, is_limited, delay, wake, tmp>>
            /\ Goto(t, IF WindowExpired(current_time[t], last_request_time[provider[t]])
                       THEN "upd_reset_count" ELSE "upd_read")
    /\ UNCHANGED <<now, citationVars, ensureVars, idles, retryVars, hist, rate_limits, last_request_time,
                   request_counts, locks, budgetVars>>

\* line 63: self.request_counts[provider] = 0
UpdateResetCount(t) ==
    /\ pc[t] = "upd_reset_count"
    /\ request_counts' = [request_counts EXCEPT ![provider[t]] = 0]
    /\ Goto(t, "upd_reset_time")
    /\ UNCHANGED <<now, citationVars, ensureVars, idles, retryVars, obsVars, rate_limits, last_request_time, locks, lockHolder,
                   budgetVars, op, provider, myLock, current_time, last_time, count,
                   is_limited, delay, wake, tmp, raised>>

\* line 64: self.last_request_time[provider] = current_time
UpdateResetTime(t) ==
    /\ pc[t] = "upd_reset_time"
    /\ last_request_time' = [last_request_time EXCEPT ![provider[t]] = current_time[t]]
    /\ Goto(t, "upd_read")
    /\ UNCHANGED <<now, citationVars, ensureVars, idles, retryVars, obsVars, rate_limits, request_counts, locks, lockHolder,
                   budgetVars, op, provider, myLock, current_time, last_time, count,
                   is_limited, delay, wake, tmp, raised>>

\* line 66, self.request_counts[provider] += 1: the load ...
UpdateRead(t) ==
    /\ pc[t] = "upd_read"
    /\ tmp' = [tmp EXCEPT ![t] = request_counts[provider[t]]]
    /\ Goto(t, "upd_write")
    /\ UNCHANGED <<now, citationVars, ensureVars, idles, retryVars, obsVars, limiterVars, budgetVars, op, provider, myLock,
                   current_time, last_time, count, is_limited, delay, wake, raised>>

\* ... and the store of the sum.
Increment(n) == n + 1

UpdateWrite(t) ==
    /\ pc[t] = "upd_write"
    /\ request_counts' = [request_counts EXCEPT ![provider[t]] = Increment(tmp[t])]
    /\ Goto(t, "release")
    /\ UNCHANGED <<now, citationVars, ensureVars, idles, retryVars, obsVars, rate_limits, last_request_time, locks, lockHolder,
                   budgetVars, op, provider, myLock, current_time, last_time, count,
                   is_limited, delay, wake, tmp, raised>>

\* --------------------------------------------------------- handle_backoff
\* line 110: the count is set to 0, whatever it was.
KeptCount(old) == IF old = Absent THEN 0 ELSE old

ResetCount(old) == 0

BackoffResetCount(t) ==
    /\ pc[t] = "bo_count"
    /\ request_counts' = [request_counts EXCEPT ![provider[t]] = ResetCount(@)]
    /\ Goto(t, "bo_time")
    /\ UNCHANGED <<now, citationVars, ensureVars, idles, retryVars, obsVars, rate_limits, last_request_time, locks, lockHolder,
                   budgetVars, op, provider, myLock, current_time, last_time, count,
                   is_limited, delay, wake, tmp, raised>>

\* line 111: self.last_request_time[provider] = time.time()
BackoffResetTime(t) ==
    /\ pc[t] = "bo_time"
    /\ last_request_time' = [last_request_time EXCEPT ![provider[t]] = now]
    /\ Goto(t, "release")
    /\ UNCHANGED <<now, citationVars, ensureVars, idles, retryVars, obsVars, rate_limits, request_counts, locks, lockHolder,
                   budgetVars, op, provider, myLock, current_time, last_time, count,
                   is_limited, delay, wake, tmp, raised>>

\* ------------------------------------------- the end of the with block
Returned(h, time) ==
    [h EXCEPT !.returned = @ + 1,
              !.lastOp = "request",
              !.lastReturn = time,
              !.inFirstMinute = IF time < StartTime + Window THEN @ + 1 ELSE @]

WasReset(h) == [h EXCEPT !.resets = @ + 1, !.lastOp = "backoff", !.sinceReset = 0]

Release(t) ==
    /\ pc[t] = "release"
    /\ lockHolder' = [lockHolder EXCEPT ![LockKey(provider[t])][myLock[t]] = LockAfterExit(t, FALSE)]
    /\ hist' = [hist EXCEPT ![provider[t]] =
          IF op[t] = "request" THEN Returned(@, now) ELSE WasReset(@)]
    /\ IF entry[t].client = "none"
       THEN /\ DropLocals(t)
            /\ Goto(t, "idle")
       ELSE /\ DropFrame(t)
            /\ entry' = [entry EXCEPT ![t].gated = provider[t]]
            /\ Goto(t, "http_get")
    /\ UNCHANGED <<now, citationVars, ensureVars, idles, retryVars, rate_limits, last_request_time,
                   request_counts, locks, budgetVars, raised>>

\* -------------------------------------------------------------- the clock
Sleepers == {t \in Threads : pc[t] = "sleeping" /\ wake[t] > now}

\* Time passes until the first sleeper is due.
Tick ==
    /\ Sleepers # {}
    /\ \E t \in Sleepers :
          /\ \A u \in Sleepers : wake[t] <= wake[u]
          /\ now' = wake[t]
    /\ UNCHANGED <<citationVars, ensureVars, idles, retryVars, obsVars, limiterVars, budgetVars, threadVars>>

\* The callers pause for a whole window between two calls.
Idle ==
    /\ idles < MaxIdles
    /\ \A t \in Threads : pc[t] = "idle"
    /\ idles' = idles + 1
    /\ now' = now + Window
    /\ UNCHANGED <<citationVars, ensureVars, retryVars, obsVars, limiterVars, budgetVars, threadVars>>

\* The steps inside handle_request.
GateStep(t) ==
    \/ GetLockCheck(t)
    \/ GetLockStore(t)
    \/ GetLockReturn(t)
    \/ Acquire(t)
    \/ CheckConfig(t)
    \/ CheckTime(t)
    \/ CheckLast(t)
    \/ CheckCount(t)
    \/ Dispatch(t)
    \/ WakeUp(t)
    \/ UpdateTime(t)
    \/ UpdateAbsent(t)
    \/ UpdateInitCount(t)
    \/ UpdateInitTime(t)
    \/ UpdateWindow(t)
    \/ UpdateResetCount(t)
    \/ UpdateResetTime(t)
    \/ UpdateRead(t)
    \/ UpdateWrite(t)
    \/ Release(t)

RequestStep(t) == CallHandleRequest(t) \/ GateStep(t)

BackoffStep(t) ==
    \/ CallHandleBackoff(t)
    \/ BackoffResetCount(t)
    \/ BackoffResetTime(t)

Next == (\E t \in Threads : RequestStep(t) \/ BackoffStep(t)) \/ Tick \/ Idle

NextSteady == (\E t \in Threads : RequestStep(t)) \/ Tick \/ Idle

\* Threads calling the limiter concurrently.
Spec == Init /\ [][Next]_vars

\* One caller, handle_request and handle_backoff in any order.
SpecSeq == InitSeq /\ [][Next]_vars

\* One caller, handle_request only.
SpecSteady == InitSteady /\ [][NextSteady]_vars

\* ====================================================== RateLimitHandler
\* A model or service name is the sequence of its characters.
Gpt4 == <<"g", "p", "t", "-", "4">>
O1Mini == <<"o", "1", "-", "m", "i", "n", "i">>
Claude3 == <<"c", "l", "a", "u", "d", "e", "-", "3">>
GeminiPro == <<"g", "e", "m", "i", "n", "i", "-", "p", "r", "o">>
Grok1 == <<"g", "r", "o", "k", "-", "1">>
SemanticScholar == <<"s", "e", "m", "a", "n", "t", "i", "c", "_", "s", "c", "h", "o",
                     "l", "a", "r">>
Scopus == <<"s", "c", "o", "p", "u", "s">>
TaylorFrancis == <<"t", "a", "y", "l", "o", "r", "_", "f", "r", "a", "n", "c", "i", "s">>

\* `sub in s`
Contains(sub, s) ==
    \E i \in 1..(Len(s) - Len(sub) + 1) : SubSeq(s, i, i + Len(sub) - 1) = sub

\* s.startswith(pre)
StartsWith(pre, s) == Len(pre) <= Len(s) /\ SubSeq(s, 1, Len(pre)) = pre

\* _get_provider_key with the test for 'claude' moved in front of the others
ClaudeFirst(model) ==
    IF Contains(<<"c", "l", "a", "u", "d", "e">>, model) THEN "anthropic"
    ELSE IF Contains(<<"g", "p", "t">>, model) \/ StartsWith(<<"o", "1", "-">>, model)
    THEN "openai"
    ELSE IF Contains(<<"g", "e", "m", "i", "n", "i">>, model) THEN "google"
    ELSE IF Contains(<<"g", "r", "o", "k">>, model) THEN "xai"
    ELSE "default"

\* _get_provider_key, lines 39-47
GetProviderKey(model) ==
    IF Contains(<<"g", "p", "t">>, model) \/ StartsWith(<<"o", "1", "-">>, model)
    THEN "openai"
    ELSE IF Contains(<<"c", "l", "a", "u", "d", "e">>, model) THEN "anthropic"
    ELSE IF Contains(<<"g", "e", "m", "i", "n", "i">>, model) THEN "google"
    ELSE IF Contains(<<"g", "r", "o", "k">>, model) THEN "xai"
    ELSE "default"

\* The names the callers of the model decorate their functions with.
DecoratedModels == {Gpt4, Claude3, SemanticScholar}

\* _min_request_interval, lines 22-29, and its lookup with the default, lines 83-85
MinRequestInterval(k) ==
    CASE k = "openai" -> Seconds(1)
      [] k = "anthropic" -> Tenths(5)
      [] k = "google" -> Seconds(1)
      [] k = "xai" -> Seconds(1)
      [] k = "semantic_scholar" -> Seconds(1)
      [] OTHER -> Seconds(1)

\* How an execution of the wrapped operation can end: a value, or an exception.
Outcomes == {"ok", "openai.RateLimitError", "anthropic.RateLimitError",
             "ResourceExhausted", "HTTPError429", "HTTPError500", "ConnectionError"}

\* The failures the transport classifies as a provider rate limit: HTTP 429, a
\* provider's rate-limit exception, a resource-exhausted signal.
IsRateLimitFailure(e) ==
    e \in {"openai.RateLimitError", "anthropic.RateLimitError", "ResourceExhausted",
           "HTTPError429"}

\* lines 67-72: the exception classes backoff.on_exception retries on;
\* requests.exceptions.HTTPError is raised for every error status.
Retried(e) ==
    e \in {"openai.RateLimitError", "anthropic.RateLimitError", "ResourceExhausted",
           "HTTPError429", "HTTPError500"}

\* line 73: max_tries=5
MaxTries == 5

GaveUpOneTryLater(tries) == tries = MaxTries + 1

\* backoff gives up when the try that failed was the max_tries-th.
GaveUp(tries) == tries = MaxTries

\* line 66, backoff.expo: the n-th value of the wait generator, in seconds
RECURSIVE Expo(_)
Expo(n) == IF n = 0 THEN 1 ELSE 2 * Expo(n - 1)

\* backoff's default jitter draws the sleep uniformly from [0, value]: nothing,
\* half of it, all of it.
JitteredWaits(value) == {0, value \div 2, value}

\* lines 74-78, on_backoff: the handler logs a warning and touches no state of
\* the limiter.
OnBackoff(c) == UNCHANGED <<limiterVars, hist>>

SetCall(c, r) == call' = [call EXCEPT ![c] = r]

\* handle_rate_limit(model), lines 60-61, with _ensure_provider_initialized
DecorateWith(c, m) ==
    /\ call[c].pc = "r_idle"
    /\ decorated[c] = "none"
    /\ invLeft[c] > 0
    /\ LET k == GetProviderKey(m)
       IN  /\ decorated' = [decorated EXCEPT ![c] = k]
           /\ modelOf' = [modelOf EXCEPT ![c] = m]
           /\ handler_queues' = handler_queues \cup {k}
           /\ handler_locks' = [handler_locks EXCEPT ![k] =
                 IF @ = Absent THEN Free ELSE @]
           /\ handler_last' = [handler_last EXCEPT ![k] =
                 IF @ = Absent THEN 0 ELSE @]
    /\ UNCHANGED <<now, citationVars, ensureVars, apiVars, invLeft, call>>

Decorate(c) == \E m \in DecoratedModels : DecorateWith(c, m)

\* A call of the decorated function enters backoff's retry loop.
Invoke(c) ==
    /\ call[c].pc = "r_idle"
    /\ decorated[c] # "none"
    /\ invLeft[c] > 0
    /\ invLeft' = [invLeft EXCEPT ![c] = @ - 1]
    /\ SetCall(c, [NoCall EXCEPT !.pc = "r_lock"])
    /\ UNCHANGED <<now, citationVars, ensureVars, apiVars, handlerVars, decorated, modelOf>>

\* The exit of `with self._locks[provider]`, line 81: the Lock released is the
\* object the block was entered with, still in _locks or not.
ExitWith(c, byException) ==
    /\ handler_locks' =
          IF c \in orphans THEN handler_locks
          ELSE [handler_locks EXCEPT ![decorated[c]] = LockAfterExit(c, byException)]
    /\ orphans' = orphans \ {c}
    /\ UNCHANGED ensure

\* tries += 1 and the call of wrapper; line 81: with self._locks[provider]
EnterWrapper(c) ==
    /\ call[c].pc = "r_lock"
    /\ handler_locks[decorated[c]] = Free
    /\ handler_locks' = [handler_locks EXCEPT ![decorated[c]] = c]
    /\ SetCall(c, [call[c] EXCEPT !.pc = "r_interval", !.tries = @ + 1,
                                    !.lastWas = handler_last[decorated[c]]])
    /\ UNCHANGED <<now, citationVars, ensureVars, apiVars, handler_queues, handler_last, decorated, modelOf, invLeft>>

\* lines 82-95: sleep what is missing to the minimum interval
EnforceInterval(c) ==
    /\ call[c].pc = "r_interval"
    /\ LET since == now - handler_last[decorated[c]]
           interval == MinRequestInterval(decorated[c])
       IN  IF since < interval
           THEN SetCall(c, [call[c] EXCEPT !.pc = "r_sleep",
                                           !.wake = now + (interval - since)])
           ELSE SetCall(c, [call[c] EXCEPT !.pc = "r_call"])
    /\ UNCHANGED <<now, citationVars, ensureVars, apiVars, handlerVars, decorated, modelOf, invLeft>>

IntervalOver(c) ==
    /\ call[c].pc = "r_sleep"
    /\ now >= call[c].wake
    /\ SetCall(c, [call[c] EXCEPT !.pc = "r_call"])
    /\ UNCHANGED <<now, citationVars, ensureVars, apiVars, handlerVars, decorated, modelOf, invLeft>>

\* line 98: result = await func(*args, **kwargs)
Execute(c) ==
    /\ call[c].pc = "r_call"
    /\ SetCall(c, [call[c] EXCEPT !.pc = "r_running", !.execs = @ + 1])
    /\ UNCHANGED <<now, citationVars, ensureVars, apiVars, handlerVars, decorated, modelOf, invLeft>>

\* lines 99-100: the operation returned; the time is recorded, the lock released
\* and backoff returns the value.
Succeed(c) ==
    /\ call[c].pc = "r_running"
    /\ handler_last' = [handler_last EXCEPT ![decorated[c]] = now]
    /\ ExitWith(c, FALSE)
    /\ succeeded' = [succeeded EXCEPT ![decorated[c]] = now]
    /\ SetCall(c, [call[c] EXCEPT !.pc = "r_done", !.result = "value"])
    /\ UNCHANGED <<now, citationVars, apiVars, handler_queues, decorated, modelOf, invLeft>>

StampedOnRaise(last, time) == time

\* lines 101-113: the except branch logs and raises again; the assignment of
\* line 99 was not reached, the timestamp stays what it was.
LastAfterRaise(last, time) == last

\* lines 101-113: the operation raised e; wrapper logs and raises it again, which
\* releases the lock.  Then backoff: an exception it does not retry on
\* propagates; on the last try it gives up and raises e; else it draws the sleep,
\* calls on_backoff and sleeps.
Fail(c) ==
    /\ call[c].pc = "r_running"
    /\ ExitWith(c, TRUE)
    /\ handler_last' = [handler_last EXCEPT ![decorated[c]] = LastAfterRaise(@, now)]
    /\ UNCHANGED succeeded
    /\ \E e \in Outcomes \ {"ok"} :
          LET seen == [call[c] EXCEPT
                          !.rateLimited = IF IsRateLimitFailure(e) THEN @ + 1 ELSE @,
                          !.others = IF IsRateLimitFailure(e) THEN @ ELSE @ + 1]
              failed == [seen EXCEPT !.pc = "r_failed", !.result = "error",
                                     !.error = e, !.errorOf = call[c].tries]
          IN  IF ~Retried(e) \/ GaveUp(call[c].tries)
              THEN SetCall(c, failed)
              ELSE \E seconds \in JitteredWaits(Seconds(Expo(call[c].waits))) :
                      SetCall(c, [seen EXCEPT !.pc = "r_backoff",
                                              !.waits = @ + 1,
                                              !.backoffs = @ + 1,
                                              !.slept = seconds,
                                              !.wake = now + seconds])
    /\ OnBackoff(c)
    /\ UNCHANGED <<now, citationVars, idles, budgetVars, threadVars, entry, handler_queues,
                   decorated, modelOf, invLeft>>

\* await asyncio.sleep(seconds) is over: the next try
BackoffOver(c) ==
    /\ call[c].pc = "r_backoff"
    /\ now >= call[c].wake
    /\ SetCall(c, [call[c] EXCEPT !.pc = "r_lock"])
    /\ UNCHANGED <<now, citationVars, ensureVars, apiVars, handlerVars, decorated, modelOf, invLeft>>

\* The caller has its value or its exception.
Finish(c) ==
    /\ call[c].pc \in {"r_done", "r_failed"}
    /\ SetCall(c, NoCall)
    /\ UNCHANGED <<now, citationVars, ensureVars, apiVars, handlerVars, decorated, modelOf, invLeft>>

RetrySleepers == {c \in Threads : call[c].pc \in {"r_sleep", "r_backoff"}
                                  /\ call[c].wake > now}

\* Time passes until the first sleeping caller is due.
TickRetry ==
    /\ RetrySleepers # {}
    /\ \E c \in RetrySleepers :
          /\ \A d \in RetrySleepers : call[c].wake <= call[d].wake
          /\ now' = call[c].wake
    /\ UNCHANGED <<citationVars, ensureVars, apiVars, retryVars>>

RetryStep(c) ==
    \/ Decorate(c)
    \/ Invoke(c)
    \/ EnterWrapper(c)
    \/ EnforceInterval(c)
    \/ IntervalOver(c)
    \/ Execute(c)
    \/ Succeed(c)
    \/ Fail(c)
    \/ BackoffOver(c)
    \/ Finish(c)

NextRetry == (\E c \in Threads : RetryStep(c)) \/ TickRetry

\* Callers of decorated functions, each on a thread of its own.
SpecRetry == InitRetry /\ [][NextRetry]_vars

\* ------------------------------------------ callers on threads of their own
\* handle_rate_limit(model) called while other threads use the handler: line 60
\* and _ensure_provider_initialized up to the test of line 53.  The Queue of
\* lines 51-52 is never used.
HandleRateLimit(c) ==
    /\ call[c].pc = "r_idle"
    /\ decorated[c] = "none"
    /\ ensure[c].pc = "none"
    /\ invLeft[c] > 0
    /\ \E m \in DecoratedModels :
          LET k == GetProviderKey(m)
          IN  /\ modelOf' = [modelOf EXCEPT ![c] = m]
              /\ handler_queues' = handler_queues \cup {k}
              /\ ensure' = [ensure EXCEPT ![c] =
                    [pc |-> IF handler_locks[k] = Absent THEN "lock_store"
                            ELSE "last_check",
                     key |-> k, replaced |-> FALSE]]
    /\ UNCHANGED <<now, citationVars, apiVars, handler_locks, handler_last, decorated,
                   invLeft, call, orphans, succeeded>>

\* line 54: self._locks[provider] = Lock().  A caller inside its `with` block
\* keeps the Lock it entered with.
EnsureLockStore(c) ==
    /\ ensure[c].pc = "lock_store"
    /\ LET k == ensure[c].key
       IN  /\ handler_locks' = [handler_locks EXCEPT ![k] = Free]
           /\ orphans' = orphans \cup
                 (IF handler_locks[k] \in Threads THEN {handler_locks[k]} ELSE {})
           /\ ensure' = [ensure EXCEPT ![c].pc = "last_check",
                                       ![c].replaced = handler_locks[k] # Absent]
    /\ UNCHANGED <<now, citationVars, apiVars, handler_queues, handler_last, callerVars,
                   succeeded>>

\* Lines 62-115: the decorator and the wrapper it returns.
Decorated(c, k) ==
    /\ decorated' = [decorated EXCEPT ![c] = k]
    /\ UNCHANGED <<modelOf, invLeft, call>>

\* line 55: if provider not in self._last_request_time
EnsureLastCheck(c) ==
    /\ ensure[c].pc = "last_check"
    /\ IF handler_last[ensure[c].key] = Absent
       THEN /\ ensure' = [ensure EXCEPT ![c].pc = "last_store"]
            /\ UNCHANGED callerVars
       ELSE /\ ensure' = [ensure EXCEPT ![c].pc = "done"]
            /\ Decorated(c, ensure[c].key)
    /\ UNCHANGED <<now, citationVars, apiVars, handlerVars, orphans, succeeded>>

\* line 56: self._last_request_time[provider] = 0
EnsureLastStore(c) ==
    /\ ensure[c].pc = "last_store"
    /\ LET k == ensure[c].key
       IN  /\ handler_last' = [handler_last EXCEPT ![k] = 0]
           /\ ensure' = [ensure EXCEPT ![c].pc = "done",
                                       ![c].replaced = @ \/ handler_last[k] # Absent]
           /\ Decorated(c, k)
    /\ UNCHANGED <<now, citationVars, apiVars, handler_queues, handler_locks, orphans,
                   succeeded>>

\* The operation of a call raises at most MaxOpFailures times.
FailSometimes(c) ==
    /\ call[c].rateLimited + call[c].others < MaxOpFailures
    /\ Fail(c)

ThreadStep(c) ==
    \/ HandleRateLimit(c)
    \/ EnsureLockStore(c)
    \/ EnsureLastCheck(c)
    \/ EnsureLastStore(c)
    \/ Invoke(c)
    \/ EnterWrapper(c)
    \/ EnforceInterval(c)
    \/ IntervalOver(c)
    \/ Execute(c)
    \/ Succeed(c)
    \/ FailSometimes(c)
    \/ BackoffOver(c)
    \/ Finish(c)

NextThreads == (\E c \in Threads : ThreadStep(c)) \/ TickRetry

\* Every thread decorates a function of its own and calls it.
InitThreads ==
    /\ InitLimiter
    /\ keys = {}
    /\ reqLeft = [t \in Threads |-> 0]
    /\ backLeft = [t \in Threads |-> 0]
    /\ invLeft = [c \in Threads |-> MaxThreadCalls]

SpecThreads == InitThreads /\ [][NextThreads]_vars

\* ---------------------------------------------------- resolving any name
\* The pieces the names given to handle_rate_limit are made of: the substrings
\* _get_provider_key looks for, one of them in capitals, and a filler.
Tokens ==
    {<<"g", "p", "t">>, <<"o", "1", "-">>, <<"c", "l", "a", "u", "d", "e">>,
     <<"g", "e", "m", "i", "n", "i">>, <<"g", "r", "o", "k">>, <<"G", "P", "T">>, <<"x">>}

RECURSIVE NamesOf(_)
NamesOf(n) ==
    IF n = 0 THEN {<<>>}
    ELSE LET shorter == NamesOf(n - 1)
         IN  shorter \cup {s \o t : s \in shorter, t \in Tokens}

\* The citation services, by the names CitationAPIManager gives them.
ServiceNames == {SemanticScholar, Scopus, TaylorFrancis}

Names == NamesOf(MaxTokens) \cup ServiceNames

\* handle_rate_limit(model) for any name
Resolve(c) == \E m \in Names : DecorateWith(c, m)

NextResolve == \E c \in Threads : Resolve(c)

InitResolve ==
    /\ InitLimiter
    /\ keys = {}
    /\ reqLeft = [t \in Threads |-> 0]
    /\ backLeft = [t \in Threads |-> 0]
    /\ invLeft = [c \in Threads |-> IF c = 1 THEN 1 ELSE 0]

SpecResolve == InitResolve /\ [][NextResolve]_vars

\* ========================================================== CitationDB
\* The strings given as DOI, as cite_key or as identifier.
Identifiers == {"10.1234/test", "test_paper", "nonexistent"}

\* class Citation, lines 7-17, without the columns no method looks at
Citation(cite_key, doi, verified) ==
    [cite_key |-> cite_key, doi |-> doi, verified |-> verified]

\* session.query(Citation).filter(Citation.doi == doi): the ids of the rows
ByDoi(doi) == {i \in DOMAIN citations : citations[i].doi = doi}

\* session.query(Citation).filter(Citation.cite_key == identifier)
ByCiteKey(identifier) == {i \in DOMAIN citations : citations[i].cite_key = identifier}

\* verify_citation with the filter of get_citation: the DOI, then the cite_key
Lookup(identifier) ==
    IF ByDoi(identifier) # {} THEN ByDoi(identifier) ELSE ByCiteKey(identifier)

\* line 77: the rows verify_citation looks among
VerifyQuery(doi) == ByDoi(doi)

DbReturn(method, identifier, result) ==
    db_last' = [method |-> method, identifier |-> identifier, result |-> result,
                before |-> citations]

\* add_citation, lines 29-53: doi is unique, a second row with the same DOI
\* fails at commit, is rolled back and the error raised again.
AddCitation ==
    /\ Len(citations) < MaxCitations
    /\ \E cite_key \in Identifiers, doi \in Identifiers, verified \in BOOLEAN :
          IF ByDoi(doi) # {}
          THEN /\ DbReturn("add_citation", doi, "IntegrityError")
               /\ UNCHANGED citations
          ELSE /\ citations' = Append(citations, Citation(cite_key, doi, verified))
               /\ DbReturn("add_citation", doi, Len(citations) + 1)
    /\ UNCHANGED <<now, ensureVars, apiVars, retryVars, search>>

\* get_citation, lines 55-71: the row with this DOI, or else a row with this
\* cite_key (first() of an unordered query: any of them), or else None.
GetCitation ==
    /\ \E identifier \in Identifiers :
          \/ /\ ByDoi(identifier) # {}
             /\ \E i \in ByDoi(identifier) : DbReturn("get_citation", identifier, i)
          \/ /\ ByDoi(identifier) = {}
             /\ ByCiteKey(identifier) # {}
             /\ \E i \in ByCiteKey(identifier) : DbReturn("get_citation", identifier, i)
          \/ /\ ByDoi(identifier) = {}
             /\ ByCiteKey(identifier) = {}
             /\ DbReturn("get_citation", identifier, "None")
    /\ UNCHANGED <<now, ensureVars, apiVars, retryVars, citations, search>>

\* verify_citation, lines 73-84
VerifyCitation ==
    /\ \E doi \in Identifiers :
          \/ /\ VerifyQuery(doi) # {}
             /\ \E i \in VerifyQuery(doi) :
                   citations' = [citations EXCEPT ![i].verified = TRUE]
             /\ DbReturn("verify_citation", doi, TRUE)
          \/ /\ VerifyQuery(doi) = {}
             /\ DbReturn("verify_citation", doi, FALSE)
             /\ UNCHANGED citations
    /\ UNCHANGED <<now, ensureVars, apiVars, retryVars, search>>

NextDB == AddCitation \/ GetCitation \/ VerifyCitation

\* A fresh database and the calls of its methods, one at a time.
InitDB ==
    /\ InitLimiter
    /\ keys = {}
    /\ reqLeft = [t \in Threads |-> 0]
    /\ backLeft = [t \in Threads |-> 0]
    /\ invLeft = [c \in Threads |-> 0]

SpecDB == InitDB /\ [][NextDB]_vars

\* ====================================================== citation clients
\* CitationAPIManager.apis, lines 146-150: the clients by the names it gives them.
Clients == {"semantic_scholar", "scopus", "taylor_francis"}
Methods == {"search_by_doi", "get_full_text"}

AlwaysScopus(client) == "scopus"

\* The key each client passes to handle_request: lines 39 and 50
\* (SemanticScholarAPI), 74 and 87 (ScopusAPI), 111 and 124 (TaylorFrancisAPI).
HandleRequestKey(client) ==
    CASE client = "semantic_scholar" -> "semantic_scholar"
      [] client = "scopus" -> "scopus"
      [] client = "taylor_francis" -> "taylor_francis"

\* search_by_doi or get_full_text of a client: its first statement is
\* self.rate_limiter.handle_request(key).
EnterClient(t, client, method) ==
    /\ pc[t] = "idle"
    /\ LET p == HandleRequestKey(client)
       IN  /\ provider' = [provider EXCEPT ![t] = p]
           /\ entry' = [entry EXCEPT ![t] =
                 [start |-> now, ordinal |-> hist[p].sinceReset + 1,
                  saturated |-> Saturated(p), prevReturn |-> hist[p].lastReturn,
                  afterReset |-> hist[p].lastOp = "backoff",
                  countWas |-> request_counts[p], timeWas |-> last_request_time[p],
                  client |-> client, method |-> method, gated |-> "none", details |-> "none"]]
           /\ hist' = [hist EXCEPT ![p].sinceReset = @ + 1]
    /\ op' = [op EXCEPT ![t] = "request"]
    /\ raised' = [raised EXCEPT ![t] = FALSE]
    /\ Goto(t, "gl_check")
    /\ UNCHANGED <<now, idles, retryVars, limiterVars, keys, backLeft, myLock,
                   current_time, last_time, count, is_limited, delay, wake, tmp>>

CallClient(t) ==
    /\ reqLeft[t] > 0
    /\ search[t].state # "running"
    /\ \E client \in Clients, method \in Methods : EnterClient(t, client, method)
    /\ reqLeft' = [reqLeft EXCEPT ![t] = @ - 1]
    /\ UNCHANGED <<citationVars, ensureVars>>

\* What session.get and raise_for_status can do: a response with a body, a
\* transport error, an error status.
HttpOutcomes == {"ok", "ConnectionError", "HTTPError"}

CaughtTransportOnly(outcome) == outcome = "ConnectionError"

\* except requests.RequestException: both failures are caught
Caught(outcome) == outcome \in {"ConnectionError", "HTTPError"}

\* What the method of a client does with the outcome of its GET: the body,
\* None after an exception it catches, the exception otherwise.
ClientReturn(outcome) ==
    IF outcome = "ok" THEN "body" ELSE IF Caught(outcome) THEN "None" ELSE "raised"

\* line 151, results[api_name] = api.search_by_doi(doi), and after the last
\* api line 152, return results; an exception of search_by_doi ends the call.
SearchAfter(srch, client, outcome) ==
    LET results == Append(srch.results, ClientReturn(outcome))
    IN  [srch EXCEPT
            !.results = IF ClientReturn(outcome) = "raised" THEN srch.results ELSE results,
            !.failed = IF outcome = "ok" THEN @ ELSE @ \cup {client},
            !.state = IF ClientReturn(outcome) = "raised" THEN "raised"
                      ELSE IF Len(results) = Len(ApiOrder) THEN "returned"
                      ELSE "running"]

\* response = self.session.get(...) and raise_for_status(): the request goes
\* out and the method returns; within search_all_by_doi its value is stored.
HttpGet(t) ==
    /\ pc[t] = "http_get"
    /\ \E outcome \in HttpOutcomes :
          LET got == [client |-> entry[t].client, method |-> entry[t].method,
                      outcome |-> outcome, returned |-> ClientReturn(outcome)]
          IN  search' = [search EXCEPT ![t] =
                IF @.state = "running"
                THEN [SearchAfter(@, entry[t].client, outcome) EXCEPT !.got = got]
                ELSE [@ EXCEPT !.got = got]]
    /\ entry' = [entry EXCEPT ![t] = NoEntry]
    /\ Goto(t, "idle")
    /\ UNCHANGED <<now, ensureVars, dbVars, idles, retryVars, hist, limiterVars, budgetVars, op, provider,
                   myLock, current_time, last_time, count, is_limited, delay, wake,
                   tmp, raised>>

ClientStep(t) == CallClient(t) \/ GateStep(t) \/ HttpGet(t)

\* ------------------------------------------------- CitationAPIManager
\* line 149: results = {}
SearchAllByDoi(t) ==
    /\ pc[t] = "idle"
    /\ search[t].state \in {"none", "returned"}
    /\ search[t].left > 0
    /\ search' = [search EXCEPT ![t] = [NoSearch EXCEPT !.state = "running",
                                                        !.left = search[t].left - 1]]
    /\ UNCHANGED <<now, ensureVars, dbVars, idles, retryVars, limiterVars, threadVars, obsVars,
                   budgetVars>>

\* lines 150-151: api.search_by_doi(doi) of the next api, up to its handle_request
SearchNext(t) ==
    /\ search[t].state = "running"
    /\ ~raised[t]
    /\ Len(search[t].results) < Len(ApiOrder)
    /\ EnterClient(t, ApiOrder[Len(search[t].results) + 1], "search_by_doi")
    /\ UNCHANGED <<citationVars, ensureVars, reqLeft>>

SearchStep(t) == SearchAllByDoi(t) \/ SearchNext(t) \/ ClientStep(t)

NextManager == (\E t \in Threads : SearchStep(t)) \/ Tick \/ Idle

\* The users of one manager: one thread that calls methods of the clients, or
\* one thread that calls search_all_by_doi, or the threads of a pool that call
\* methods of the clients at the same time.
InitManager ==
    /\ InitAPI
    /\ InitHandler
    /\ keys = {}
    /\ backLeft = [t \in Threads |-> 0]
    /\ invLeft = [c \in Threads |-> 0]
    /\ \/ /\ reqLeft = [t \in Threads |-> IF t = 1 THEN MaxClientCalls ELSE 0]
          /\ search = [t \in Threads |-> NoSearch]
       \/ /\ reqLeft = [t \in Threads |-> 0]
          /\ search = [t \in Threads |->
                [NoSearch EXCEPT !.left = IF t = 1 THEN MaxSearches ELSE 0]]
       \/ /\ reqLeft = [t \in Threads |-> MaxCalls]
          /\ search = [t \in Threads |-> NoSearch]

SpecManager == InitManager /\ [][NextManager]_vars

\* Either one thread calls methods of the citation clients, or one caller calls
\* a decorated function.
InitOutbound ==
    /\ InitLimiter
    /\ keys = {}
    /\ backLeft = [t \in Threads |-> 0]
    /\ \/ /\ reqLeft = [t \in Threads |-> IF t = 1 THEN MaxClientCalls ELSE 0]
          /\ invLeft = [c \in Threads |-> 0]
       \/ /\ reqLeft = [t \in Threads |-> 0]
          /\ invLeft = [c \in Threads |-> IF c = 1 THEN MaxInvokes ELSE 0]

NextOutbound ==
    \/ \E t \in Threads : ClientStep(t)
    \/ Tick
    \/ Idle
    \/ \E c \in Threads : RetryStep(c)
    \/ TickRetry

\* The call sites that issue outbound requests.
SpecOutbound == InitOutbound /\ [][NextOutbound]_vars

\* ============================================================ interrupts
\* An exception is raised in a thread while it sleeps in handle_request
\* (time.sleep, lines 95 and 98): the call is left through its `with` block.
Interrupt(t) ==
    /\ pc[t] = "sleeping"
    /\ op[t] = "request"
    /\ Goto(t, "unwinding")
    /\ UNCHANGED <<now, citationVars, ensureVars, idles, retryVars, obsVars, limiterVars, budgetVars, op, provider, myLock,
                   current_time, last_time, count, is_limited, delay, wake, tmp, raised>>

\* line 91: the exit of `with self._get_lock(provider)` on the way out
Unwind(t) ==
    /\ pc[t] = "unwinding"
    /\ lockHolder' = [lockHolder EXCEPT ![LockKey(provider[t])][myLock[t]] =
                         LockAfterExit(t, TRUE)]
    /\ DropLocals(t)
    /\ Goto(t, "idle")
    /\ UNCHANGED <<now, citationVars, ensureVars, idles, retryVars, hist, rate_limits, last_request_time,
                   request_counts, locks, budgetVars, raised>>

\* Either one thread makes its handle_request calls on a key, or one caller
\* makes its calls of a decorated function.
InitCancel ==
    /\ InitLimiter
    /\ backLeft = [t \in Threads |-> 0]
    /\ \/ /\ keys = {"taylor_francis"}
          /\ reqLeft = [t \in Threads |-> IF t = 1 THEN MaxInterruptible ELSE 0]
          /\ invLeft = [c \in Threads |-> 0]
       \/ /\ keys = {}
          /\ reqLeft = [t \in Threads |-> 0]
          /\ invLeft = [c \in Threads |-> IF c = 1 THEN MaxInvokes ELSE 0]

NextCancel ==
    \/ \E t \in Threads : RequestStep(t) \/ Interrupt(t) \/ Unwind(t)
    \/ Tick
    \/ Idle
    \/ \E c \in Threads : RetryStep(c)
    \/ TickRetry

\* Calls that an exception can end while they sleep or while the wrapped
\* operation runs.
SpecCancel == InitCancel /\ [][NextCancel]_vars

\* ============================================================ event loop
\* Decorated coroutines run as tasks of one asyncio event loop, which has one
\* thread.  A task keeps the thread from the moment it is resumed until it
\* awaits something that suspends it: the wrapped operation (line 98) or the
\* sleep of backoff.  Lock.acquire (line 81) and time.sleep (line 95) do not
\* suspend the task: they block the thread of the loop.
OnLoop(c) == call[c].pc \in {"r_lock", "r_interval", "r_sleep", "r_call"}

\* The steps of a task whose function was decorated when its module was loaded
\* and whose operation returns a value whenever it is executed.
TaskStep(c) ==
    \/ Invoke(c)
    \/ EnterWrapper(c)
    \/ EnforceInterval(c)
    \/ IntervalOver(c)
    \/ Execute(c)
    \/ Succeed(c)
    \/ Finish(c)

\* The loop resumes a task only when no task has its thread.
LoopStep(c) ==
    /\ \A d \in Threads \ {c} : ~OnLoop(d)
    /\ TaskStep(c)

\* The functions of all tasks are decorated for the same model.
InitLoop ==
    /\ InitAPI
    /\ ensure = [c \in Threads |-> NoEnsure]
    /\ orphans = {}
    /\ succeeded = [k \in HandlerKeys |-> Never]
    /\ search = [t \in Threads |-> NoSearch]
    /\ keys = {}
    /\ reqLeft = [t \in Threads |-> 0]
    /\ backLeft = [t \in Threads |-> 0]
    /\ invLeft = [c \in Threads |-> MaxLoopCalls]
    /\ LET k == GetProviderKey(Gpt4)
       IN  /\ handler_queues = {k}
           /\ handler_locks = [h \in HandlerKeys |-> IF h = k THEN Free ELSE Absent]
           /\ handler_last = [h \in HandlerKeys |-> IF h = k THEN 0 ELSE Absent]
           /\ decorated = [c \in Threads |-> k]
    /\ modelOf = [c \in Threads |-> Gpt4]
    /\ call = [c \in Threads |-> NoCall]

NextLoop == (\E c \in Threads : LoopStep(c)) \/ TickRetry

\* Callers of decorated functions as tasks of one event loop.
SpecLoop == InitLoop /\ [][NextLoop]_vars

\* ================================================================ claims
\* The count of a key, as request_counts.get(key, 0) reads it.
CountOf(p) == IF request_counts[p] = Absent THEN 0 ELSE request_counts[p]

Quiet == \A t \in Threads : pc[t] = "idle"

\* A thread between taking the lock of its key and releasing it.
InSection(t) ==
    pc[t] \in {"chk_config", "chk_time", "chk_last", "chk_count", "dispatch",
               "sleeping", "upd_time", "upd_absent", "upd_init_count",
               "upd_init_time", "upd_window", "upd_reset_count", "upd_reset_time",
               "upd_read", "upd_write", "bo_count", "bo_time", "release"}

\* A handle_request that has computed its delay and not yet finished sleeping.
Delayed(t) == op[t] = "request" /\ pc[t] \in {"dispatch", "sleeping"}

\* C1: threads call handle_request concurrently on a key the limiter has never
\* seen, within the first 60 s and with no handle_backoff on the key: once all
\* calls have returned, request_counts[key] is the number of calls.
C1_NoLostUpdates ==
    \A p \in Providers :
        (/\ Quiet
         /\ now < StartTime + Window
         /\ hist[p].resets = 0
         /\ \A t \in Threads : ~raised[t])
        => CountOf(p) = hist[p].returned

\* C2: for a key, at most one caller at a time is between taking the lock and
\* releasing it (the limit test, the sleep and the update of handle_request, the
\* reset of handle_backoff).
C2_MutualExclusion ==
    \A t, u \in Threads :
        (t # u /\ InSection(t) /\ InSection(u)) => provider[t] # provider[u]

\* C3: for a configured provider, the handle_request calls that return within
\* 60 s (here: the first 60 s of the limiter) never exceed requests_per_minute.
C3_CeilingRespected ==
    \A p \in Configured : hist[p].inFirstMinute <= rate_limits[p].requests_per_minute

\* C4: a handle_request entered while the count has reached burst_limit in the
\* current window does not return earlier than 60/requests_per_minute seconds
\* after the previous handle_request on the key returned.
C4_SpacedAfterBurst ==
    \A t \in Threads :
        (/\ pc[t] = "release"
         /\ op[t] = "request"
         /\ entry[t].saturated
         /\ entry[t].prevReturn # Never)
        => now - entry[t].prevReturn >= DelayNeeded(rate_limits[provider[t]])

\* C5: from a fresh or just reset provider with a policy, each of the first
\* burst_limit handle_request calls takes the jitter branch (is not reported
\* rate limited) and sleeps at most max_delay.
C5_BurstCallsJitterOnly ==
    \A t \in Threads :
        (/\ Delayed(t)
         /\ rate_limits[provider[t]] # NoConfig
         /\ entry[t].ordinal <= rate_limits[provider[t]].burst_limit)
        => /\ ~is_limited[t]
           /\ delay[t] <= rate_limits[provider[t]].max_delay
           /\ pc[t] = "sleeping" => wake[t] - now <= rate_limits[provider[t]].max_delay

\* C5 witness: the last call of a burst, after a reset, sleeping its jitter.
C5_Witness ==
    \E t \in Threads :
        /\ pc[t] = "sleeping"
        /\ op[t] = "request"
        /\ rate_limits[provider[t]] # NoConfig
        /\ entry[t].ordinal = rate_limits[provider[t]].burst_limit
        /\ entry[t].ordinal >= 2
        /\ hist[provider[t]].resets > 0

\* C6: the sleep one handle_request imposes lies in
\* [0, max(max_delay, 60/requests_per_minute)] (0 for a key without a policy).
DelayCeiling(config) ==
    IF config = NoConfig THEN 0 ELSE Max(config.max_delay, DelayNeeded(config))

C6_DelayBounded ==
    \A t \in Threads :
        Delayed(t) =>
            /\ delay[t] >= 0
            /\ delay[t] <= DelayCeiling(rate_limits[provider[t]])

\* C7: when handle_backoff returns, the count of its key is 0 and the timestamp
\* of the key is the time of the reset (between the call and the return); the
\* handle_request that follows it takes the jitter branch and leaves the count
\* at 1.
C7_ResetThenFirstRequest ==
    \A t \in Threads :
        /\ (pc[t] = "release" /\ op[t] = "backoff") =>
              /\ request_counts[provider[t]] = 0
              /\ entry[t].start <= last_request_time[provider[t]]
              /\ last_request_time[provider[t]] <= now
        /\ (Delayed(t) /\ entry[t].afterReset) => ~is_limited[t]
        /\ (pc[t] = "release" /\ op[t] = "request" /\ entry[t].afterReset) =>
              request_counts[provider[t]] = 1

\* C7 witness: a key whose burst was used up is reset, and the request that
\* follows the reset is about to return.
C7_Witness ==
    \E t \in Threads :
        /\ pc[t] = "release"
        /\ op[t] = "request"
        /\ entry[t].afterReset
        /\ hist[provider[t]].returned >= 2
        /\ request_counts[provider[t]] = 1

\* What one call of a decorated function has been through.
Ended(c) == call[c].pc \in {"r_done", "r_failed"}
OnlyRateLimited(c) == call[c].rateLimited > 0 /\ call[c].others = 0

\* C8: a decorated call whose operation failed with rate-limit failures exactly
\* twice and then succeeded returns the value after exactly 3 executions and 2
\* backoff sleeps, and handle_backoff was performed exactly twice for its key.
C8_TwoFailuresThenSuccess ==
    \A c \in Threads :
        (call[c].pc = "r_done" /\ call[c].rateLimited = 2 /\ call[c].others = 0) =>
            /\ call[c].result = "value"
            /\ call[c].execs = 3
            /\ call[c].backoffs = 2
            /\ hist[decorated[c]].resets = 2

\* C9: a decorated call whose operation fails with a rate-limit failure on
\* every attempt executes it exactly max_tries = 5 times and then raises the error
\* of the fifth attempt; it never executes it a sixth time and never ends with a
\* value or in another way.
C9_ExhaustedRetriesRaise ==
    \A c \in Threads :
        /\ call[c].execs <= MaxTries
        /\ (Ended(c) /\ OnlyRateLimited(c) /\ call[c].rateLimited = call[c].execs) =>
              /\ call[c].pc = "r_failed"
              /\ call[c].execs = MaxTries
              /\ call[c].result = "error"
              /\ IsRateLimitFailure(call[c].error)
              /\ call[c].errorOf = MaxTries
        /\ (call[c].pc = "r_backoff" /\ OnlyRateLimited(c)) => call[c].execs < MaxTries

\* C9 witness: five executions, five rate-limit failures, and the call has raised.
C9_Witness ==
    \E c \in Threads :
        /\ call[c].pc = "r_failed"
        /\ call[c].execs = MaxTries
        /\ call[c].rateLimited = MaxTries
        /\ call[c].others = 0

\* C10: a decorated call whose operation fails with an error that is no
\* rate-limit failure raises that error after exactly one execution: no retry, no
\* backoff sleep, no window reset.
C10_OtherErrorsNotRetried ==
    \A c \in Threads :
        (call[c].rateLimited = 0 /\ call[c].others > 0) =>
            /\ call[c].pc = "r_failed"
            /\ call[c].execs = 1
            /\ call[c].backoffs = 0
            /\ hist[decorated[c]].resets = 0

\* The state of the retry machine a call of a decorated function is in.
Phase(c) ==
    CASE c.pc = "r_idle" -> "NONE"
      [] c.pc \in {"r_lock", "r_interval", "r_sleep", "r_call", "r_running"} -> "ATTEMPTING"
      [] c.pc = "r_backoff" -> "BACKING_OFF"
      [] c.pc = "r_done" -> "DONE"
      [] c.pc = "r_failed" -> "FAILED"

\* C11: a decorated call executes its operation at most 5 times, and its retry
\* machine only moves from ATTEMPTING to DONE, from ATTEMPTING to FAILED, from
\* ATTEMPTING to BACKING_OFF on a rate-limit failure with attempts remaining, and
\* from BACKING_OFF back to ATTEMPTING; a terminal state is left only by the call
\* being over.
C11_RetryMachine ==
    [][\A c \in Threads :
          LET from == Phase(call[c])
              to == Phase(call'[c])
          IN  /\ call'[c].execs <= MaxTries
              /\ from # to =>
                    \/ from = "NONE" /\ to = "ATTEMPTING"
                    \/ from = "ATTEMPTING" /\ to \in {"DONE", "FAILED"}
                    \/ /\ from = "ATTEMPTING"
                       /\ to = "BACKING_OFF"
                       /\ call'[c].rateLimited = call[c].rateLimited + 1
                       /\ call[c].tries < MaxTries
                    \/ from = "BACKING_OFF" /\ to = "ATTEMPTING"
                    \/ from \in {"DONE", "FAILED"} /\ to = "NONE"]_vars

\* C12: handle_request never fails: for every key, with or without a policy,
\* seen before or not, no call of it ends by raising an error.
C12_HandleRequestNeverRaises == \A t \in Threads : ~raised[t]

\* C13: a handle_request on a key without a policy is throttled with the
\* default policy (60 requests per minute, burst 1, min_delay 0.1 s, max_delay
\* 1.0 s): below the burst limit it sleeps a jitter in [0.1 s, 1.0 s], and once
\* the burst is counted it is held to the spacing of 60/60 = 1 s.
C13_DefaultPolicyApplied ==
    \A t \in Threads :
        (Delayed(t) /\ rate_limits[provider[t]] = NoConfig) =>
            IF is_limited[t]
            THEN delay[t] > 0 /\ delay[t] <= Seconds(1)
            ELSE delay[t] >= Tenths(1) /\ delay[t] <= Seconds(1)

\* The Lock objects a thread holds.
HeldBy(t) == {l \in Providers \X Threads : lockHolder[l[1]][l[2]] = t}

\* A thread waiting at `with` for a Lock that another thread holds.
BlockedBy(t, u) ==
    /\ pc[t] = "acquire"
    /\ lockHolder[LockKey(provider[t])][myLock[t]] = u

\* The only caller the key of thread t has had.
OnlyCaller(t) ==
    /\ hist[provider[t]].returned = 0
    /\ hist[provider[t]].resets = 0
    /\ \A u \in Threads \ {t} :
          ~raised[u] /\ (pc[u] = "idle" \/ provider[u] # provider[t])

\* C14: a caller waiting for, holding or sleeping under the lock of one
\* provider never delays a call for another provider: a thread waits only for a
\* thread that is in a call on the same key, no thread holds two locks, and a
\* handle_request that is the only call on its key sleeps its own policy delay
\* only, whatever the other threads do.
C14_ProvidersIndependent ==
    /\ \A t, u \in Threads :
          BlockedBy(t, u) => (pc[u] # "idle" /\ provider[u] = provider[t])
    /\ \A t \in Threads : Cardinality(HeldBy(t)) <= 1
    /\ \A t \in Threads :
          (Delayed(t) /\ OnlyCaller(t)) =>
              /\ delay[t] >= 0
              /\ delay[t] <= DelayCeiling(rate_limits[provider[t]])

\* C14 witness: a handle_request is about to return while a call on another
\* key, entered no later, still sleeps under its lock.
C14_Witness ==
    \E t, u \in Threads :
        /\ pc[t] = "release"
        /\ op[t] = "request"
        /\ pc[u] = "sleeping"
        /\ wake[u] > now
        /\ provider[u] # provider[t]
        /\ entry[u].start <= entry[t].start
        /\ HeldBy(u) # {}
        /\ HeldBy(t) # {}

\* A thread that _get_lock has returned a Lock to.
HasLock(t) == pc[t] \notin {"idle", "gl_check", "gl_store", "gl_return"}

\* C15: there is one lock per key for the lifetime of the limiter: calls on the
\* same key that run at the same time use the same Lock object, also when they
\* are the first calls on the key.
C15_OneLockPerKey ==
    \A t, u \in Threads :
        (HasLock(t) /\ HasLock(u) /\ provider[t] = provider[u]) => myLock[t] = myLock[u]

\* An attempt of a decorated call that an exception has ended.
AttemptRaised(c) == call[c].pc \in {"r_backoff", "r_failed"}

\* C16: when an exception ends a caller while it sleeps inside handle_request,
\* or ends the wrapped operation running under the lock of its key, the count
\* and the timestamp of the key are what they were before the call, and the
\* lock is released on the way out: a caller that is in no call, or between two
\* attempts, holds no lock.
C16_InterruptLeavesNoTrace ==
    /\ \A t \in Threads :
          /\ pc[t] = "unwinding" =>
                /\ request_counts[provider[t]] = entry[t].countWas
                /\ last_request_time[provider[t]] = entry[t].timeWas
          /\ pc[t] = "idle" => HeldBy(t) = {}
    /\ \A c \in Threads :
          AttemptRaised(c) =>
              /\ handler_last[decorated[c]] = call[c].lastWas
              /\ \A k \in HandlerKeys : handler_locks[k] # c

\* C16 witness: a handle_request was interrupted in the sleep the burst limit
\* imposed on it, and the next call on the key has taken the lock.
C16_Witness ==
    \E t \in Threads :
        /\ InSection(t)
        /\ op[t] = "request"
        /\ entry[t].ordinal > hist[provider[t]].returned + 1
        /\ entry[t].saturated

\* C16 witness, decorated calls: the operation raised under the lock and the
\* next attempt has taken the lock.
C16_WitnessWrapped ==
    \E c \in Threads :
        /\ call[c].pc = "r_running"
        /\ call[c].tries > 1
        /\ handler_locks[decorated[c]] = c

\* A handle_request on a key that has a window, about to return; current_time is
\* the time its update read.
Updated(t) ==
    /\ pc[t] = "release"
    /\ op[t] = "request"
    /\ entry[t].timeWas # Absent

\* C17: a handle_request that runs 60 s or more after the start of the window
\* of its key leaves the count at 1 and the window start at its own time; one
\* that runs less than 60 s after it adds exactly 1 to the count and leaves the
\* window start as it was.
C17_WindowReset ==
    \A t \in Threads :
        Updated(t) =>
            IF current_time[t] - entry[t].timeWas >= Window
            THEN /\ request_counts[provider[t]] = 1
                 /\ last_request_time[provider[t]] = current_time[t]
            ELSE /\ request_counts[provider[t]] = entry[t].countWas + 1
                 /\ last_request_time[provider[t]] = entry[t].timeWas

\* C17 witness: a call resets a window that had counted requests, 60 s or more
\* after its start.
C17_Witness ==
    \E t \in Threads :
        /\ Updated(t)
        /\ current_time[t] - entry[t].timeWas >= Window
        /\ entry[t].countWas >= 1
        /\ request_counts[provider[t]] = 1

\* C18: every handle_request on a provider with a policy blocks its caller for
\* at least min_delay, also the request that follows the burst and the first
\* request after handle_backoff.
C18_AtLeastMinDelay ==
    \A t \in Threads :
        (Delayed(t) /\ rate_limits[provider[t]] # NoConfig) =>
            delay[t] >= rate_limits[provider[t]].min_delay

\* C19: when several tasks of one event loop call functions decorated for the
\* same provider and every operation terminates, every call returns or raises:
\* as long as a call is in progress, some caller can take a step or a sleep can
\* end, so that no caller waits for the lock forever.
C19_NoCallerWaitsForever ==
    (\E c \in Threads : call[c].pc # "r_idle") => ENABLED NextLoop

\* C20: every outbound request is preceded, in the same call, by the gate of
\* its provider: an attempt of a decorated call executes its operation only
\* under the lock of its key, one lock acquisition per execution, and no sooner
\* than the minimum interval after the recorded last request; a citation client
\* issues its GET only after a handle_request with the key of that client has
\* returned to it.
C20_GateBeforeOutbound ==
    /\ \A c \in Threads :
          /\ call[c].execs <= call[c].tries
          /\ call[c].pc \in {"r_call", "r_running"} =>
                /\ handler_locks[decorated[c]] = c
                /\ call[c].tries = call[c].execs + (IF call[c].pc = "r_call" THEN 1 ELSE 0)
                /\ now - handler_last[decorated[c]] >= MinRequestInterval(decorated[c])
    /\ \A t \in Threads :
          pc[t] = "http_get" =>
              /\ entry[t].gated = entry[t].client
              /\ hist[entry[t].client].returned >= 1

\* C20 witness: a retry, after a backoff, executes its operation after a
\* request succeeded on the key.
C20_Witness ==
    \E c \in Threads :
        /\ call[c].pc = "r_running"
        /\ call[c].backoffs >= 1
        /\ handler_last[decorated[c]] >= StartTime

\* C20 witness, citation clients: a client is about to issue its GET.
C20_WitnessClient ==
    \E t \in Threads :
        /\ pc[t] = "http_get"
        /\ entry[t].client = "taylor_francis"
        /\ entry[t].method = "get_full_text"
        /\ entry[t].saturated

\* ------------------------------------------------------------------ C21
\* The rules of the resolution in their order: what a name must look like, and
\* the key it then gets.
RuleMatches(i, name) ==
    CASE i = 1 -> Contains(<<"g", "p", "t">>, name) \/ StartsWith(<<"o", "1", "-">>, name)
      [] i = 2 -> Contains(<<"c", "l", "a", "u", "d", "e">>, name)
      [] i = 3 -> Contains(<<"g", "e", "m", "i", "n", "i">>, name)
      [] i = 4 -> Contains(<<"g", "r", "o", "k">>, name)

RuleKey == <<"openai", "anthropic", "google", "xai">>

Matching(name) == {i \in DOMAIN RuleKey : RuleMatches(i, name)}

\* C21: every name resolves to exactly one key: the key of the earliest rule
\* the name matches (containing 'gpt' or starting with 'o1-', then containing
\* 'claude', then 'gemini', then 'grok'), and 'default' when it matches none.
C21_FirstMatchWins ==
    \A c \in Threads :
        decorated[c] # "none" =>
            /\ decorated[c] \in {"openai", "anthropic", "google", "xai", "default"}
            /\ Matching(modelOf[c]) = {} => decorated[c] = "default"
            /\ \A i \in Matching(modelOf[c]) :
                   (\A j \in Matching(modelOf[c]) : i <= j) => decorated[c] = RuleKey[i]

\* A name matching the rules of anthropic, google and openai, in this order of
\* appearance in the name, has been resolved.
C21_Witness ==
    \E c \in Threads :
        /\ decorated[c] = "openai"
        /\ Matching(modelOf[c]) = {1, 2, 3}
        /\ StartsWith(<<"c", "l", "a", "u", "d", "e">>, modelOf[c])

\* ------------------------------------------------------------------ C22
ServiceKey(name) ==
    CASE name = SemanticScholar -> "semantic_scholar"
      [] name = Scopus -> "scopus"
      [] name = TaylorFrancis -> "taylor_francis"

\* C22: the name of a citation service resolves to the key of that very name.
C22_ServicesKeepTheirKey ==
    \A c \in Threads :
        (decorated[c] # "none" /\ modelOf[c] \in ServiceNames) =>
            decorated[c] = ServiceKey(modelOf[c])

\* ------------------------------------------------------------------ C23
\* The entries of the table: the keys that have a policy.
Entries == {p \in Providers : rate_limits[p] # NoConfig}

WellFormed(config) ==
    /\ 0 < config.min_delay
    /\ config.min_delay <= config.max_delay
    /\ config.requests_per_minute > 0
    /\ config.burst_limit >= 1

\* The table is the one the constructor built, and each of its entries is
\* well formed.
C23_TableAsBuilt ==
    /\ rate_limits = InitialRateLimits
    /\ Entries = Configured
    /\ \A p \in Entries : WellFormed(rate_limits[p])

\* C23: the policy table holds anthropic (45, 3), openai (60, 5),
\* semantic_scholar (30, 2), scopus (20, 2), taylor_francis (15, 1) and a
\* default entry, each entry with 0 < min_delay <= max_delay (0.1 s and 1.0 s),
\* requests_per_minute > 0 and burst_limit >= 1, and handle_request and
\* handle_backoff never change it.
C23_PolicyTable ==
    /\ rate_limits["anthropic"] = RateLimitConfig(45, 3)
    /\ rate_limits["openai"] = RateLimitConfig(60, 5)
    /\ rate_limits["semantic_scholar"] = RateLimitConfig(30, 2)
    /\ rate_limits["scopus"] = RateLimitConfig(20, 2)
    /\ rate_limits["taylor_francis"] = RateLimitConfig(15, 1)
    /\ "default" \in Entries
    /\ \A p \in Entries :
          /\ WellFormed(rate_limits[p])
          /\ rate_limits[p].min_delay = Tenths(1)
          /\ rate_limits[p].max_delay = Seconds(1)
    /\ rate_limits = InitialRateLimits

\* ------------------------------------------------------------------ C24
\* The rows get_citation can return for an identifier.
Got(identifier) == Lookup(identifier)

\* C24: verify_citation(identifier) returns True and marks the citation when
\* the identifier is the DOI or the cite_key of a stored citation, so that
\* get_citation(identifier) then returns it with verified = True; for any other
\* identifier it returns False and changes no row.
C24_VerifyByDoiOrCiteKey ==
    db_last.method = "verify_citation" =>
        LET identifier == db_last.identifier
            stored == {i \in DOMAIN db_last.before :
                          \/ db_last.before[i].doi = identifier
                          \/ db_last.before[i].cite_key = identifier}
        IN  IF stored # {}
            THEN /\ db_last.result = TRUE
                 /\ \A i \in Got(identifier) : citations[i].verified
            ELSE /\ db_last.result = FALSE
                 /\ citations = db_last.before

\* What does hold: by DOI the citation is found and marked, and an identifier
\* that is no DOI of a stored citation gets False and changes nothing.
C24_VerifyByDoi ==
    db_last.method = "verify_citation" =>
        LET identifier == db_last.identifier
            stored == {i \in DOMAIN db_last.before : db_last.before[i].doi = identifier}
        IN  IF stored # {}
            THEN /\ db_last.result = TRUE
                 /\ \A i \in Got(identifier) : citations[i].verified
                 /\ \A i \in DOMAIN citations \ stored : citations[i] = db_last.before[i]
            ELSE /\ db_last.result = FALSE
                 /\ citations = db_last.before

\* ------------------------------------------------------------------ C25
Failures == {"ConnectionError", "HTTPError"}

\* C25: search_by_doi and get_full_text of a client return None and do not
\* raise when the request fails by a transport error or an error status, and
\* search_all_by_doi returns one entry for each of the three apis, None for
\* those whose request failed, having queried them all.
C25_FailuresBecomeNone ==
    \A t \in Threads :
        /\ search[t].got.outcome \in Failures => search[t].got.returned = "None"
        /\ search[t].got.returned # "raised"
        /\ search[t].state # "raised"
        /\ search[t].state = "returned" =>
              /\ Len(search[t].results) = Len(ApiOrder)
              /\ \A i \in DOMAIN ApiOrder :
                    search[t].results[i] =
                        IF ApiOrder[i] \in search[t].failed THEN "None" ELSE "body"

\* search_all_by_doi has returned after the request of its first api failed
\* and a later one succeeded.
C25_Witness ==
    \E t \in Threads :
        /\ search[t].state = "returned"
        /\ search[t].results = <<"None", "body", "None">>
        /\ search[t].got.outcome = "HTTPError"

\* get_full_text of a client has returned None after a transport error while
\* another thread is inside handle_request.
C25_WitnessFullText ==
    \E t, u \in Threads :
        /\ search[t].got.method = "get_full_text"
        /\ search[t].got.outcome = "ConnectionError"
        /\ search[t].got.returned = "None"
        /\ InSection(u)

\* ------------------------------------------------------------------ C26
\* C26: a handle_request about to return has added 1 to the count of its key
\* and left the timestamp of the key at the time of this very request (the
\* time its update read), not at the time of an earlier one.
C26_TimestampOfLatestRequest ==
    \A t \in Threads :
        (pc[t] = "release" /\ op[t] = "request") =>
            /\ request_counts[provider[t]] >= 1
            /\ last_request_time[provider[t]] = current_time[t]

\* What does hold: the timestamp is the start of the current window, which is
\* the time of this request only when it opened the window.
C26_TimestampOfWindowStart ==
    \A t \in Threads :
        (pc[t] = "release" /\ op[t] = "request") =>
            /\ request_counts[provider[t]] >= 1
            /\ last_request_time[provider[t]] <= current_time[t]
            /\ current_time[t] - last_request_time[provider[t]] < Window
            /\ (entry[t].timeWas # Absent /\ current_time[t] - entry[t].timeWas < Window)
                   => last_request_time[provider[t]] = entry[t].timeWas

\* ------------------------------------------------------------------ C27
\* C27: the sleep before the retry that follows the k-th retried failure of a
\* call (k from 0) is exactly 2^k seconds: 1, 2, 4, 8, each longer than the
\* one before.
C27_ExactDoubling ==
    \A c \in Threads :
        call[c].pc = "r_backoff" => call[c].slept = Seconds(Expo(call[c].waits - 1))

\* What does hold: 2^k seconds is the most the sleep can be.
C27_AtMostDoubling ==
    \A c \in Threads :
        call[c].pc = "r_backoff" =>
            /\ call[c].slept >= 0
            /\ call[c].slept <= Seconds(Expo(call[c].waits - 1))
            /\ call[c].waits \in 1..(MaxTries - 1)

\* ------------------------------------------------------------------ C28
\* A handle_backoff inside its `with` block: before, between or after its two
\* writes.
Resetting(t) == op[t] = "backoff" /\ pc[t] \in {"bo_count", "bo_time", "release"}

\* C28: the reset of handle_backoff runs under the lock of its key: while it
\* is between taking and releasing the lock, and in particular between its two
\* writes, no handle_request on the same key is inside its own section.
C28_ResetAtomic ==
    \A t, u \in Threads :
        (t # u /\ Resetting(t) /\ op[u] = "request" /\ InSection(u))
            => provider[t] # provider[u]

\* What does hold: the reset and the section use the same Lock whenever the
\* two calls were given the same Lock object.
C28_ResetUnderSameLock ==
    \A t, u \in Threads :
        (/\ t # u /\ Resetting(t) /\ op[u] = "request" /\ InSection(u)
         /\ provider[t] = provider[u])
            => myLock[t] # myLock[u]

\* ------------------------------------------------------------------ C29
\* The minimum interval of a key, as stated: 0.5 s for anthropic, 1.0 s for
\* every other key.
StatedInterval(k) == IF k = "anthropic" THEN Tenths(5) ELSE Seconds(1)

\* The wrapped operation of c starts.
Starts(c) == call[c].pc = "r_call" /\ call'[c].pc = "r_running"

\* C29: whenever a wrapped operation starts, at least the minimum interval of
\* its key has passed since the last wrapped operation on that key returned
\* successfully, whatever the callers did in between.
C29_IntervalSinceLastSuccess ==
    [][\A c \in Threads :
          (Starts(c) /\ succeeded[decorated[c]] # Never)
              => now - succeeded[decorated[c]] >= StatedInterval(decorated[c])]_vars

\* No store of _ensure_provider_initialized has replaced a Lock or a timestamp
\* that was there already.
NothingReplaced == \A c \in Threads : ~ensure[c].replaced

\* What does hold: the interval is kept as long as no timestamp was replaced.
C29_IntervalUnlessReplaced ==
    [][\A c \in Threads :
          (Starts(c) /\ succeeded[decorated[c]] # Never /\ NothingReplaced)
              => now - succeeded[decorated[c]] >= StatedInterval(decorated[c])]_vars

\* ------------------------------------------------------------------ C30
\* A caller between the test of the minimum interval and the end of its
\* wrapped operation.
InWrapper(c) == call[c].pc \in {"r_interval", "r_sleep", "r_call", "r_running"}

\* C30: a caller holds the lock of its key from the test of the minimum
\* interval until its wrapped operation has returned or raised, so no two
\* wrapped operations of one key are in flight at the same time.
C30_OneInFlightPerProvider ==
    /\ \A c \in Threads : InWrapper(c) => handler_locks[decorated[c]] = c
    /\ \A c, d \in Threads :
          (c # d /\ call[c].pc = "r_running" /\ call[d].pc = "r_running")
              => decorated[c] # decorated[d]

\* What does hold: two operations of one key overlap only after a Lock was
\* replaced, and operations of different keys do run at the same time.
C30_OneInFlightUnlessReplaced ==
    NothingReplaced =>
        /\ \A c \in Threads : InWrapper(c) => handler_locks[decorated[c]] = c
        /\ \A c, d \in Threads :
              (c # d /\ call[c].pc = "r_running" /\ call[d].pc = "r_running")
                  => decorated[c] # decorated[d]

C30_DifferentProvidersInFlight ==
    \E c, d \in Threads :
        /\ call[c].pc = "r_running" /\ call[d].pc = "r_running"
        /\ decorated[c] = "openai" /\ decorated[d] = "anthropic"

\* ------------------------------------------------------------------ C31
\* The wrapped operation of c raises / returns.
Raises(c) == call[c].pc = "r_running" /\ call'[c].pc \in {"r_backoff", "r_failed"}

Returns(c) == call[c].pc = "r_running" /\ call'[c].pc = "r_done"

\* C31: a wrapped operation that raises, whatever the error, leaves the
\* timestamp of every key as it was; of the steps of a call of a decorated
\* function only the return of the wrapped operation changes a timestamp: that
\* of its key, to the time of the return.
C31_FailureLeavesTimestamp ==
    [][/\ (\E c \in Threads : Raises(c)) => handler_last' = handler_last
       /\ \A k \in HandlerKeys :
             (call' # call /\ handler_last'[k] # handler_last[k])
                 => /\ \E c \in Threads : Returns(c) /\ decorated[c] = k
                    /\ handler_last'[k] = now]_vars

\* An attempt has raised some time after an earlier call had succeeded: the
\* timestamp is still the time of that success.
C31_Witness ==
    \E c \in Threads :
        /\ AttemptRaised(c)
        /\ call[c].lastWas >= StartTime
        /\ handler_last[decorated[c]] = call[c].lastWas
        /\ now > call[c].lastWas

\* The same for an error that is not retried.
C31_WitnessOtherError ==
    \E c \in Threads :
        /\ call[c].pc = "r_failed"
        /\ ~Retried(call[c].error)
        /\ call[c].lastWas >= StartTime
        /\ handler_last[decorated[c]] = call[c].lastWas
        /\ now > call[c].lastWas

\* ------------------------------------------------------------------ C32
\* The key a handle_backoff call is to reset: the 'provider' entry of its
\* details, 'unknown' when there is none.
Named(t) == IF entry[t].details = "none" THEN "unknown" ELSE entry[t].details

\* Thread t takes a step of its handle_backoff call.
BackoffStepOf(t) == op[t] = "backoff" /\ pc[t] # "idle" /\ pc'[t] # pc[t]

\* C32: handle_backoff sets the count of the provider its details name to 0
\* and that provider's timestamp to the current time, and no step of the call
\* changes the count or the timestamp of any other key; details without a
\* 'provider' entry name the key 'unknown', so no configured provider's state
\* changes then.
C32_BackoffResetsNamedOnly ==
    [][\A t \in Threads : BackoffStepOf(t) =>
          /\ \A k \in Providers \ {Named(t)} :
                /\ request_counts'[k] = request_counts[k]
                /\ last_request_time'[k] = last_request_time[k]
          /\ pc[t] = "bo_count" => request_counts'[Named(t)] = 0
          /\ pc[t] = "bo_time" => last_request_time'[Named(t)] = now
          /\ entry[t].details = "none" =>
                \A k \in Configured :
                    /\ request_counts'[k] = request_counts[k]
                    /\ last_request_time'[k] = last_request_time[k]]_vars

\* C32 witness: a handle_backoff whose details name no provider has reset
\* 'unknown' while a configured provider holds a count and a timestamp.
C32_Witness ==
    \E t \in Threads :
        /\ op[t] = "backoff"
        /\ pc[t] = "release"
        /\ entry[t].details = "none"
        /\ request_counts["unknown"] = 0
        /\ last_request_time["unknown"] = now
        /\ \E k \in Configured :
              /\ request_counts[k] \notin {Absent, 0}
              /\ last_request_time[k] # Absent

\* C32 witness: a handle_backoff naming a configured provider has reset it
\* while another key holds a count of its own.
C32_WitnessNamed ==
    \E t \in Threads :
        /\ op[t] = "backoff"
        /\ pc[t] = "release"
        /\ entry[t].details \in Configured
        /\ request_counts[entry[t].details] = 0
        /\ \E k \in Providers \ {entry[t].details} :
              request_counts[k] \notin {Absent, 0}

====
